---- MODULE Spec2Model ----
(***************************************************************************)
(* LWMD (src/lwmd.js): a streaming Markdown-to-DOM parser.  One LWMD       *)
(* instance is the record lwmd; its methods are operators from instance    *)
(* records to instance records, composed exactly as the methods call each  *)
(* other.  Characters are their UTF-16 code units, strings are sequences   *)
(* of code units.  The DOM built under the target element is kept as the   *)
(* log of the calls made on it (append of a text, append of an element     *)
(* that becomes the top, leaving that element, append of an <hr>), which   *)
(* determines the tree.  The field threw records that the last call left   *)
(* through an uncaught TypeError.  streamingMode and output_type are set   *)
(* and never read by the code, and are left out.                           *)
(***************************************************************************)
EXTENDS Integers, Sequences, FiniteSets, TLC

(* LWMD_ENUM.CHAR *)
SPACE == 32
NEWLINE == 10
ASTERISK == 42
UNDERSCORE == 95
TILDE == 126
HASH == 35
DASH == 45
BACKTICK == 96

(* LWMD_ENUM.STATE *)
NORMAL == 0
SEQUENCE_HEADING == 1
SEQUENCE_HR == 2
SEQUENCE_MODIFIER == 3
CODE == 4

(* JavaScript's null (uncorfinmed_start, hr_char); no offset or code unit is negative *)
NULL == -1

(* the deepest heading level, Math.min(6, heading_count) *)
MaxHeadingLevel == 6

(* ---- bounds of the explored inputs ---- *)
MaxLen == 4
MaxFragments == 3
MaxHashes == 7
MaxParses == 3

Min(a, b) == IF a < b THEN a ELSE b
Max(a, b) == IF a > b THEN a ELSE b

(* ToNumber(null) is 0 *)
ToNumber(x) == IF x = NULL THEN 0 ELSE x

(* String.prototype.slice(from, to) *)
Slice(s, from, to) ==
    LET len == Len(s)
        f == IF from < 0 THEN Max(len + from, 0) ELSE Min(from, len)
        t == IF to < 0 THEN Max(len + to, 0) ELSE Min(to, len)
    IN  IF f < t THEN SubSeq(s, f + 1, t) ELSE <<>>

(* ---- the DOM calls made under the target ---- *)
TextNode(s) == [op |-> "text", arg |-> s]
OpenElement(level) == [op |-> "open", arg |-> <<level>>]
CloseElement == [op |-> "close", arg |-> <<>>]
HrElement == [op |-> "hr", arg |-> <<>>]

isModifierChar(char) == char = ASTERISK \/ char = UNDERSCORE \/ char = TILDE

(* ---- getSubstring(start, end) over this.chunks ---- *)
RECURSIVE FastPath(_, _, _, _, _)
FastPath(chunks, c, idx, start, end) ==
    IF c > Len(chunks) THEN [found |-> FALSE, value |-> <<>>]
    ELSE LET chunk == chunks[c]
             len == Len(chunk)
         IN  IF idx = start /\ idx + len = end
             THEN [found |-> TRUE, value |-> chunk]
             ELSE IF start >= idx /\ end <= idx + len
             THEN [found |-> TRUE, value |-> Slice(chunk, start - idx, end - idx)]
             ELSE FastPath(chunks, c + 1, idx + len, start, end)

RECURSIVE GeneralPathFromChunkStart(_, _, _, _, _, _)
GeneralPathFromChunkStart(chunks, c, pos, start, end, result) ==
    IF ~(c <= Len(chunks) /\ start < end) THEN result
    ELSE LET chunk == chunks[c]
             len == Len(chunk)
             chunkStart == 0
             chunkEnd == Min(len, end - pos)
             r == IF chunkStart < chunkEnd
                  THEN result \o Slice(chunk, chunkStart, chunkEnd)
                  ELSE result
         IN  IF pos + len >= end THEN r
             ELSE GeneralPathFromChunkStart(chunks, c + 1, pos + len, start, end, r)

RECURSIVE GeneralPath(_, _, _, _, _, _)
GeneralPath(chunks, c, pos, start, end, result) ==
    IF ~(c <= Len(chunks) /\ start < end) THEN result
    ELSE LET chunk == chunks[c]
             len == Len(chunk)
             chunkStart == Max(0, start - pos)
             chunkEnd == Min(len, end - pos)
             r == IF chunkStart < chunkEnd
                  THEN result \o Slice(chunk, chunkStart, chunkEnd)
                  ELSE result
         IN  IF pos + len >= end THEN r
             ELSE GeneralPath(chunks, c + 1, pos + len, start, end, r)

getSubstring(chunks, start, end) ==
    IF Len(chunks) = 1 THEN Slice(chunks[1], start, end)
    ELSE LET fast == FastPath(chunks, 1, 0, start, end)
         IN  IF fast.found THEN fast.value
             ELSE GeneralPath(chunks, 1, 0, start, end, <<>>)

clearStateKeepsParserState(p) ==
    [p EXCEPT !.position = 0,
              !.start = 0,
              !.uncorfinmed_start = 0,
              !.stack = <<"target">>,
              !.chunks = <<>>]

(* ---- clearState(): every per-document field back to its initial value ---- *)
clearState(p) ==
    [p EXCEPT !.position = 0,
              !.start = 0,
              !.uncorfinmed_start = 0,
              !.stack = <<"target">>,
              !.chunks = <<>>,
              !.state = [locked |-> FALSE,
                         state |-> NORMAL,
                         line_start |-> TRUE,
                         heading_count |-> 0,
                         hr_char |-> NULL,
                         hr_count |-> 0,
                         modifierStack |-> <<>>]]

(* new LWMD(null, target, options): an empty target, then clearState() *)
NewLWMD(flush_on_write) ==
    clearState([position |-> 0, start |-> 0, uncorfinmed_start |-> 0,
                stack |-> <<>>, chunks |-> <<>>,
                state |-> [locked |-> FALSE, state |-> NORMAL, line_start |-> TRUE,
                           heading_count |-> 0, hr_char |-> NULL, hr_count |-> 0,
                           modifierStack |-> <<>>],
                options |-> [flush_on_write |-> flush_on_write],
                target |-> <<>>,
                threw |-> FALSE])

flushUnlocked(p, start, end) ==
    LET string == getSubstring(p.chunks, ToNumber(start), ToNumber(end))
    IN  IF Len(string) = 0 THEN p
        ELSE [p EXCEPT !.target = Append(@, TextNode(string)),
                       !.start = p.position,
                       !.uncorfinmed_start = NULL]

(* ---- flush(start, end) ---- *)
flush(p, start, end) ==
    IF p.state.locked THEN p
    ELSE LET string == getSubstring(p.chunks, ToNumber(start), ToNumber(end))
         IN  IF Len(string) = 0 THEN p
             ELSE [p EXCEPT !.target = Append(@, TextNode(string)),
                            !.start = p.position,
                            !.uncorfinmed_start = NULL]

(* flush() with its default arguments *)
flushDefault(p) == flush(p, p.start, p.position)

(* ---- up(wrapper) and down() ---- *)
up(p, level) ==
    [p EXCEPT !.target = Append(@, OpenElement(level)),
              !.stack = Append(@, "h")]

downNever(p) == p

down(p) ==
    IF Len(p.stack) > 1
    THEN [p EXCEPT !.stack = SubSeq(@, 1, Len(@) - 1),
                   !.target = Append(@, CloseElement)]
    ELSE p

(* ---- write(chunk): the switch on this.state.state, one case per operator ---- *)

(* entering a block recognizer at a line start (heading run or rule run) *)
enterHeadingPastMarker(p) ==
    LET f == flushDefault(p)
    IN  [f EXCEPT !.state.locked = TRUE,
                  !.state.state = SEQUENCE_HEADING,
                  !.state.heading_count = 1,
                  !.uncorfinmed_start = f.position + 1]

enterHeading(p) ==
    LET f == flushDefault(p)
    IN  [f EXCEPT !.state.locked = TRUE,
                  !.state.state = SEQUENCE_HEADING,
                  !.state.heading_count = 1,
                  !.uncorfinmed_start = f.position]

enterHr(p, char) ==
    LET f == flushDefault(p)
    IN  [f EXCEPT !.state.locked = TRUE,
                  !.state.state = SEQUENCE_HR,
                  !.state.hr_char = char,
                  !.state.hr_count = 1,
                  !.uncorfinmed_start = f.position]

enterModifierLocked(p, char) ==
    LET f == flushDefault(p)
    IN  [f EXCEPT !.state.locked = TRUE,
                  !.state.state = SEQUENCE_MODIFIER,
                  !.state.modifierStack = Append(@, <<char, 1>>),
                  !.uncorfinmed_start = f.position + 1]

enterModifier(p, char) ==
    LET f == flushDefault(p)
    IN  [f EXCEPT !.state.state = SEQUENCE_MODIFIER,
                  !.state.modifierStack = Append(@, <<char, 1>>),
                  !.uncorfinmed_start = f.position + 1]

enterCode(p) ==
    LET f == flushDefault(p)
    IN  [f EXCEPT !.state.state = CODE,
                  !.uncorfinmed_start = f.position + 1]

caseNORMAL(p, char) ==
    IF p.state.line_start
    THEN IF char = HASH THEN enterHeading(p)
         ELSE IF char = UNDERSCORE \/ char = ASTERISK \/ char = DASH THEN enterHr(p, char)
         ELSE p
    ELSE IF isModifierChar(char) THEN enterModifier(p, char)
    ELSE IF char = BACKTICK THEN enterCode(p)
    ELSE p

(* the rule is confirmed only by a newline after a count above 2 *)
hrConfirmed(p, char) == p.state.hr_count > 2 /\ char = NEWLINE

caseSEQUENCE_HR(p, char) ==
    IF char = p.state.hr_char \/ char = SPACE
    THEN [p EXCEPT !.state.hr_count = @ + 1]
    ELSE LET u == [p EXCEPT !.state.state = NORMAL, !.state.locked = FALSE]
             d == IF hrConfirmed(p, char)
                  THEN [u EXCEPT !.target = Append(@, HrElement),
                                 !.start = u.position]
                  ELSE IF isModifierChar(p.state.hr_char)
                  THEN LET f == flushDefault(u)
                       IN  [f EXCEPT !.state.state = SEQUENCE_MODIFIER,
                                     !.state.modifierStack =
                                         Append(@, <<p.state.hr_char, p.state.hr_count>>),
                                     !.uncorfinmed_start = f.position + 1]
                  ELSE u
         IN  [d EXCEPT !.state.hr_char = NULL, !.state.hr_count = 0]

headingConfirmedByAny(char) == TRUE

(* the heading is confirmed by a space or a newline after the run *)
headingConfirmed(char) == char = SPACE \/ char = NEWLINE

headingLevelUncapped(count) == count

headingLevel(count) == Min(MaxHeadingLevel, count)

caseSEQUENCE_HEADING(p, char) ==
    IF char = HASH
    THEN [p EXCEPT !.state.heading_count = @ + 1,
                   !.uncorfinmed_start = ToNumber(@) + 1]
    ELSE LET u == [p EXCEPT !.state.state = NORMAL, !.state.locked = FALSE]
             d == IF headingConfirmed(char)
                  THEN LET us == ToNumber(u.uncorfinmed_start) + 2
                       IN  [up(u, headingLevel(u.state.heading_count))
                               EXCEPT !.start = us]
                  ELSE [u EXCEPT !.state.heading_count = 0]
         IN  [d EXCEPT !.uncorfinmed_start = NULL]

(* A modifier character seen in SEQUENCE_MODIFIER: the top run is extended when it  *)
(* has length 1 and the same character, else a new run is pushed.  The comparison   *)
(* with the run below the top ("We have a match") has an empty body.  Reading       *)
(* last[1] of an empty stack raises a TypeError, after uncorfinmed_start++.         *)
modifierRun(stack, char) ==
    LET last == stack[Len(stack)]
    IN  IF last[2] = 1 /\ char = last[1]
        THEN [stack EXCEPT ![Len(stack)] = [last EXCEPT ![2] = @ + 1]]
        ELSE Append(stack, <<char, 1>>)

(* modifierStack[length - 1][2] = position *)
modifierEnd(stack, position) ==
    LET last == stack[Len(stack)]
    IN  [stack EXCEPT ![Len(stack)] = <<last[1], last[2], position>>]

caseSEQUENCE_MODIFIER(p, char) ==
    IF isModifierChar(char)
    THEN LET u == [p EXCEPT !.uncorfinmed_start = ToNumber(@) + 1]
         IN  IF Len(p.state.modifierStack) = 0
             THEN [u EXCEPT !.threw = TRUE]
             ELSE [u EXCEPT !.state.modifierStack = modifierRun(@, char)]
    ELSE LET u == [p EXCEPT !.state.state = NORMAL, !.state.locked = FALSE]
         IN  IF Len(p.state.modifierStack) = 0
             THEN [u EXCEPT !.threw = TRUE]
             ELSE [u EXCEPT !.state.modifierStack = modifierEnd(@, u.position)]

(* CODE and CODE_BLOCK have no case in the switch *)
switchState(p, char) ==
    CASE p.state.state = NORMAL -> caseNORMAL(p, char)
      [] p.state.state = SEQUENCE_HR -> caseSEQUENCE_HR(p, char)
      [] p.state.state = SEQUENCE_HEADING -> caseSEQUENCE_HEADING(p, char)
      [] p.state.state = SEQUENCE_MODIFIER -> caseSEQUENCE_MODIFIER(p, char)
      [] OTHER -> p

(* after the switch: the newline handling, whatever the state was *)
closeHeading(p) ==
    IF p.state.heading_count > 0
    THEN [down(flushDefault(p)) EXCEPT !.state.heading_count = 0]
    ELSE p

keepModifiers(stack) == stack

(* this.state.modifierStack.length = 0 *)
clearModifiers(stack) == <<>>

afterSwitch(p, char) ==
    IF char = NEWLINE
    THEN closeHeading([p EXCEPT !.state.line_start = TRUE,
                                !.state.modifierStack = clearModifiers(@)])
    ELSE IF p.state.line_start THEN [p EXCEPT !.state.line_start = FALSE]
    ELSE p

(* one turn of the while loop; an exception leaves the loop before position++     *)
(* (each intermediate instance is bound by a quantifier, so it is evaluated once) *)
processChar(p, char) ==
    LET afterChar(s) == IF s.threw THEN s
                        ELSE [afterSwitch(s, char) EXCEPT !.position = @ + 1]
    IN  CHOOSE r \in {afterChar(s) : s \in {switchState(p, char)}} : TRUE

RECURSIVE writeLoop(_, _, _)
writeLoop(p, chunk, i) ==
    IF i > Len(chunk) \/ p.threw THEN p
    ELSE CHOOSE r \in {writeLoop(q, chunk, i + 1) : q \in {processChar(p, chunk[i])}} : TRUE

flushAlways(p) == flushDefault(p)

flushOnWrite(p) == IF p.options.flush_on_write THEN flushDefault(p) ELSE p

write(p, chunk) ==
    LET w == writeLoop([p EXCEPT !.chunks = Append(@, chunk)], chunk, 1)
    IN  IF w.threw THEN w ELSE flushOnWrite(w)

(* ---- end() ---- *)
endFlush(p) ==
    IF p.state.locked
    THEN LET u == [p EXCEPT !.state.locked = FALSE]
         IN  flush(u, u.uncorfinmed_start, u.position)
    ELSE p

end(p) == clearState(endFlush(p))

(* ---- parse(text): a new target, clearState(), write(text), end() ---- *)
parse(p, text) ==
    LET fresh == clearState([p EXCEPT !.target = <<>>, !.threw = FALSE])
        w == write(fresh, text)
    IN  IF w.threw THEN w ELSE end(w)

(* ======================= the caller and the instance ======================= *)
(* lwmd    the LWMD instance                                                   *)
(* doc     the document the caller streams, todo what it has yet to write      *)
(* phase   "streaming" until the caller has called end(), then "ended";        *)
(*         "batch" for a caller that reuses the instance with parse()          *)
(* results the calls a batch caller has made, each with what it produced       *)
VARIABLES lwmd, doc, todo, phase, results

vars == <<lwmd, doc, todo, phase, results>>

(* one ordinary letter stands for every character without a meaning *)
Alphabet == {HASH, SPACE, NEWLINE, ASTERISK, TILDE, DASH, BACKTICK, 97}

Strings(alphabet, n) == UNION {[1..k -> alphabet] : k \in 0..n}

Docs == Strings(Alphabet, MaxLen)

Init ==
    /\ doc \in Docs
    /\ todo = doc
    /\ lwmd \in {NewLWMD(f) : f \in BOOLEAN}
    /\ phase = "streaming"
    /\ results = <<>>

(* write(fragment): the caller hands over the next non-empty piece of the document; *)
(* an exception out of write() ends the caller's run                                *)
Write ==
    /\ phase = "streaming"
    /\ ~lwmd.threw
    /\ \E k \in 1..Len(todo) :
          /\ Len(lwmd.chunks) + 1 < MaxFragments \/ k = Len(todo)
          /\ lwmd' = write(lwmd, SubSeq(todo, 1, k))
          /\ todo' = SubSeq(todo, k + 1, Len(todo))
    /\ UNCHANGED <<doc, phase, results>>

(* end(), once the whole document is written *)
End ==
    /\ phase = "streaming"
    /\ ~lwmd.threw
    /\ todo = <<>>
    /\ lwmd' = end(lwmd)
    /\ phase' = "ended"
    /\ UNCHANGED <<doc, todo, results>>

Next == Write \/ End

Spec == Init /\ [][Next]_vars

(* ---- the same caller, also calling the public flush() between the calls ---- *)
Flush ==
    /\ phase = "streaming"
    /\ ~lwmd.threw
    /\ lwmd' = flushDefault(lwmd)
    /\ UNCHANGED <<doc, todo, phase, results>>

NextFlush == Write \/ End \/ Flush

(* '~' is left out here: at a line start it is read as the letter is, elsewhere *)
(* as '*' is, and the cursors do not depend on which marker a run is made of    *)
FlushDocs == Strings(Alphabet \ {TILDE}, MaxLen)

InitFlush ==
    /\ doc \in FlushDocs
    /\ todo = doc
    /\ lwmd \in {NewLWMD(f) : f \in BOOLEAN}
    /\ phase = "streaming"
    /\ results = <<>>

SpecFlush == InitFlush /\ [][NextFlush]_vars

(* ---- the chunk store alone: fragments, empty ones included, pushed by write() ---- *)
StoreAlphabet == {97, 98, SPACE}

StoreDocs == Strings(StoreAlphabet, MaxLen)

InitStore ==
    /\ doc \in StoreDocs
    /\ todo = doc
    /\ lwmd = NewLWMD(FALSE)
    /\ phase = "streaming"
    /\ results = <<>>

(* write(fragment) with any next piece of the document, the empty one too *)
WriteAny ==
    /\ phase = "streaming"
    /\ Len(lwmd.chunks) < MaxFragments
    /\ \E k \in 0..Len(todo) :
          /\ lwmd' = write(lwmd, SubSeq(todo, 1, k))
          /\ todo' = SubSeq(todo, k + 1, Len(todo))
    /\ UNCHANGED <<doc, phase, results>>

NextStore == WriteAny

SpecStore == InitStore /\ [][NextStore]_vars

(* ---- headings: "#" x n, a space, a text without newline, a newline ---- *)
RECURSIVE Repeat(_, _)
Repeat(char, n) == IF n = 0 THEN <<>> ELSE <<char>> \o Repeat(char, n - 1)

HeadingTexts == Strings(Alphabet \ {NEWLINE}, MaxLen - 2)

HeadingDoc(n, t) == Repeat(HASH, n) \o <<SPACE>> \o t \o <<NEWLINE>>

(* the heading on the first line of the document, or on the line after "a\n" *)
HeadingDocs ==
    {HeadingDoc(n, t) : n \in 1..MaxHashes, t \in HeadingTexts}
        \cup {<<97, NEWLINE>> \o HeadingDoc(n, t) : n \in 1..MaxHashes, t \in {<<>>, <<97>>}}

InitHeading ==
    /\ doc \in HeadingDocs
    /\ todo = doc
    /\ lwmd \in {NewLWMD(f) : f \in BOOLEAN}
    /\ phase = "streaming"
    /\ results = <<>>

SpecHeading == InitHeading /\ [][Next]_vars

(* ---- batch reuse: parse() and write() calls on one shared instance ---- *)
BatchDocs ==
    { <<HASH, HASH>>,
      <<HASH, SPACE, 97>>,
      <<97, ASTERISK, 97>>,
      <<BACKTICK>>,
      <<ASTERISK, NEWLINE, 97>>,
      <<DASH, DASH, DASH, NEWLINE>> }

InitBatch ==
    /\ doc = <<>>
    /\ todo = <<>>
    /\ lwmd \in {NewLWMD(f) : f \in BOOLEAN}
    /\ phase = "batch"
    /\ results = <<>>

Called(call, d, p) == [call |-> call, doc |-> d, target |-> p.target, threw |-> p.threw]

ParseDoc ==
    /\ phase = "batch"
    /\ Len(results) < MaxParses
    /\ \E d \in BatchDocs :
          /\ lwmd' = parse(lwmd, d)
          /\ results' = Append(results, Called("parse", d, lwmd'))
    /\ UNCHANGED <<doc, todo, phase>>

(* a streaming write on the shared instance between two parses (the stream is not ended) *)
WriteDoc ==
    /\ phase = "batch"
    /\ Len(results) < MaxParses
    /\ \E d \in BatchDocs :
          /\ lwmd' = write([lwmd EXCEPT !.threw = FALSE], d)
          /\ results' = Append(results, Called("write", d, lwmd'))
    /\ UNCHANGED <<doc, todo, phase>>

NextBatch == ParseDoc \/ WriteDoc

SpecBatch == InitBatch /\ [][NextBatch]_vars

(* ============================ reading the output ============================ *)
RECURSIVE TextOf(_)
TextOf(target) ==
    IF target = <<>> THEN <<>>
    ELSE (IF Head(target).op = "text" THEN Head(target).arg ELSE <<>>) \o TextOf(Tail(target))

IsStructural(command) == command.op # "text"

(* the structural commands alone: blocks opened and closed, rules inserted *)
Structure(target) == SelectSeq(target, IsStructural)

(* the output with adjacent text nodes merged into one *)
RECURSIVE Merged(_)
Merged(target) ==
    IF Len(target) < 2 THEN target
    ELSE LET rest == Merged(Tail(target))
         IN  IF Head(target).op = "text" /\ Head(rest).op = "text"
             THEN <<TextNode(Head(target).arg \o Head(rest).arg)>> \o Tail(rest)
             ELSE <<Head(target)>> \o rest

RECURSIVE Count(_, _)
Count(char, s) ==
    IF s = <<>> THEN 0 ELSE (IF Head(s) = char THEN 1 ELSE 0) + Count(char, Tail(s))

(* the text consumed and not yet flushed, which the next flush() appends *)
Pending == getSubstring(lwmd.chunks, lwmd.start, lwmd.position)

(* what the caller has handed to write() so far *)
Consumed == SubSeq(doc, 1, Len(doc) - Len(todo))

(* the same document written as one single fragment, before and after end() *)
SingleWritten == write(NewLWMD(lwmd.options.flush_on_write), doc)

SingleEnded == IF SingleWritten.threw THEN SingleWritten ELSE end(SingleWritten)

AllWritten == phase = "streaming" /\ todo = <<>> /\ ~lwmd.threw

Ended == phase = "ended"

(* ================================ the claims ================================ *)

C2_NoCallRaises == ~lwmd.threw

(* C3: "#" x n, a space, a text t without newline, a newline, read at a line  *)
(* start in NORMAL: exactly one heading of level min(6, n) is opened and      *)
(* closed, t is all of the text inside it, and no "#" nor the separating      *)
(* space is appended as text.                                                 *)
LeadingHashes(s) == IF \E i \in 1..Len(s) : s[i] # HASH
                    THEN (CHOOSE i \in 1..Len(s) : s[i] # HASH /\ \A j \in 1..(i - 1) : s[j] = HASH) - 1
                    ELSE Len(s)

(* the line before the heading line, if any, and the heading line *)
LineBefore(s) == IF s[1] = HASH THEN <<>> ELSE SubSeq(s, 1, 2)
HeadingLine(s) == SubSeq(s, Len(LineBefore(s)) + 1, Len(s))
HeadingText(s) == SubSeq(HeadingLine(s), LeadingHashes(HeadingLine(s)) + 2, Len(HeadingLine(s)) - 1)

FirstOpen(target) == CHOOSE i \in 1..Len(target) : target[i].op = "open" /\ \A j \in 1..(i - 1) : target[j].op # "open"
FirstClose(target) == CHOOSE i \in 1..Len(target) : target[i].op = "close" /\ \A j \in 1..(i - 1) : target[j].op # "close"

C3_HeadingConfirmed ==
    (todo = <<>>) =>
        LET n == LeadingHashes(HeadingLine(doc))
            t == lwmd.target
        IN  /\ ~lwmd.threw
            /\ Structure(t) = <<OpenElement(Min(6, n)), CloseElement>>
            /\ TextOf(SubSeq(t, 1, FirstOpen(t))) = LineBefore(doc)
            /\ TextOf(SubSeq(t, FirstOpen(t), FirstClose(t))) = HeadingText(doc)
            /\ TextOf(SubSeq(t, FirstClose(t) + 1, Len(t))) \o (IF Ended THEN <<>> ELSE Pending)
                  \in {<<>>, <<NEWLINE>>}
            /\ Ended \/ (lwmd.stack = <<"target">> /\ lwmd.state.heading_count = 0)

C3_Witness ==
    /\ AllWritten
    /\ LeadingHashes(doc) >= 7
    /\ Len(HeadingText(doc)) = 2
    /\ Structure(lwmd.target) = <<OpenElement(6), CloseElement>>
    /\ TextOf(lwmd.target) = HeadingText(doc) \o <<NEWLINE>>

(* C4: a line-start run of "#" followed by a character other than "#", space  *)
(* and newline opens no heading, leaves heading_count 0 and the lock clear,   *)
(* and the run with the rest of the line is plain text exactly as written     *)
(* (appended already, or pending for the next flush).                         *)
(* the run is on the first line, or on the line after an empty line *)
AbortLine(s) == IF s # <<>> /\ s[1] = NEWLINE THEN Tail(s) ELSE s

AbortedHeadingDoc(s) ==
    LET line == AbortLine(s)
        n == LeadingHashes(line)
    IN  /\ n >= 1
        /\ n < Len(line)
        /\ line[n + 1] \notin {SPACE, NEWLINE}
        /\ \A i \in 1..(Len(line) - 1) : line[i] # NEWLINE

RuleRunDoc(s) ==
    /\ Len(s) >= 2
    /\ s[1] \in {DASH, ASTERISK, UNDERSCORE}
    /\ \A i \in 2..(Len(s) - 1) : s[i] \in {s[1], SPACE}
    /\ s[Len(s)] \notin {s[1], SPACE}

C5_RuleNeedsThreeMarkers ==
    (RuleRunDoc(doc) /\ todo = <<>>) =>
        LET N == Count(doc[1], doc)
            rules == Count(HrElement, Structure(lwmd.target))
        IN  IF N >= 3 /\ doc[Len(doc)] = NEWLINE THEN rules = 1 ELSE rules = 0

(* C6: end() while the lock is set appends, as one plain text, every          *)
(* character consumed since the recognizer was entered (the whole undecided   *)
(* run, which began at the start of the last line), and no block.             *)
RECURSIVE LastLine(_)
LastLine(s) ==
    IF \E i \in 1..Len(s) : s[i] = NEWLINE THEN LastLine(Tail(s)) ELSE s

C6_EndFlushesWholeSpan ==
    [][(phase = "streaming" /\ phase' = "ended" /\ lwmd.state.locked)
          => lwmd'.target = Append(lwmd.target, TextNode(LastLine(doc)))]_vars

(* C7: on one instance, two parse() calls of the same document return the     *)
(* same output whatever was parsed or written in between, and that output is  *)
(* the one a new instance returns.                                            *)
C7_ParseIdempotent ==
    \A i \in 1..Len(results) :
        results[i].call = "parse" =>
            /\ \A j \in 1..Len(results) :
                  (results[j].call = "parse" /\ results[j].doc = results[i].doc)
                      => (results[j].target = results[i].target /\ results[j].threw = results[i].threw)
            /\ LET new == parse(NewLWMD(lwmd.options.flush_on_write), results[i].doc)
               IN  results[i].target = new.target /\ results[i].threw = new.threw

C7_Witness ==
    /\ Len(results) = 3
    /\ \A i \in 1..3 : results[i].call = "parse"
    /\ results[1].doc = results[3].doc
    /\ results[2].doc # results[1].doc
    /\ Structure(results[1].target) # <<>>
    /\ results[2].threw

(* C8: two runs of the same emphasis marker and the same length on one line,  *)
(* with text between them, produce an inline span: a structural command other *)
(* than a heading or a rule (up() is called for headings only, <hr> is the    *)
(* only void element).                                                        *)
IsRun(s, i, k, m) ==
    /\ i + k - 1 <= Len(s)
    /\ \A x \in i..(i + k - 1) : s[x] = m
    /\ i = 1 \/ s[i - 1] # m
    /\ i + k - 1 = Len(s) \/ s[i + k] # m

MatchedEmphasisDoc(s) ==
    \E m \in {ASTERISK, UNDERSCORE, TILDE} : \E k, i, j \in 1..Len(s) :
        /\ IsRun(s, i, k, m)
        /\ IsRun(s, j, k, m)
        /\ j > i + k
        /\ \A x \in (i + k)..(j - 1) : ~isModifierChar(s[x]) /\ s[x] # NEWLINE

IsInlineSpan(command) == command.op \notin {"text", "open", "close", "hr"}

C8_MatchedEmphasisWrapped ==
    (MatchedEmphasisDoc(doc) /\ (AllWritten \/ Ended))
        => SelectSeq(lwmd.target, IsInlineSpan) # <<>>

(* C9: right after a newline is processed the modifier stack is empty and     *)
(* line_start is set, and every emphasis marker consumed so far is in the     *)
(* text appended or pending (unless a rule took the run).                     *)
AfterNewline ==
    /\ phase = "streaming"
    /\ lwmd.position > 0
    /\ doc[lwmd.position] = NEWLINE

C9_NoModifierAcrossLines ==
    AfterNewline =>
        /\ lwmd.state.modifierStack = <<>>
        /\ lwmd.state.line_start
        /\ Count(HrElement, lwmd.target) = 0 =>
              \A m \in {ASTERISK, UNDERSCORE, TILDE} :
                  Count(m, TextOf(lwmd.target) \o Pending)
                      = Count(m, SubSeq(doc, 1, lwmd.position))

C9_Witness ==
    /\ AfterNewline
    /\ ~lwmd.threw
    /\ lwmd.position >= 3
    /\ isModifierChar(doc[lwmd.position - 1])
    /\ ~isModifierChar(doc[lwmd.position - 2])
    /\ doc[lwmd.position - 2] # NEWLINE
    /\ lwmd.state.modifierStack = <<>>

(* C10: any partition and the single fragment give the same output once       *)
(* adjacent text nodes are merged, and the same parser state after the last   *)
(* character.                                                                 *)
C10_SameUpToChunking ==
    /\ (Ended \/ lwmd.threw) => Merged(lwmd.target) = Merged(SingleEnded.target)
    /\ AllWritten =>
          /\ lwmd.state = SingleWritten.state
          /\ lwmd.position = SingleWritten.position
          /\ lwmd.stack = SingleWritten.stack

(* C10 holds in every run in which no write() raises: the merged outputs after *)
(* end(), and the parser state, cursors and pending text after the last        *)
(* character, are those of the single fragment.                                *)
C10_SameUnlessRaised ==
    /\ Ended => Merged(lwmd.target) = Merged(SingleEnded.target)
    /\ AllWritten =>
          /\ lwmd.state = SingleWritten.state
          /\ lwmd.position = SingleWritten.position
          /\ lwmd.stack = SingleWritten.stack
          /\ Merged(lwmd.target \o <<TextNode(Pending)>>)
                = Merged(SingleWritten.target \o
                    <<TextNode(getSubstring(SingleWritten.chunks, SingleWritten.start,
                                            SingleWritten.position))>>)

(* C11: end() called with the lock clear, under either flush_on_write         *)
(* setting, leaves every consumed character that is no confirmed heading      *)
(* marker or rule span appended exactly once, in input order; in particular,  *)
(* when no heading and no rule was confirmed, the appended text is the whole  *)
(* document.                                                                  *)
EndsUnlocked == phase = "streaming" /\ phase' = "ended" /\ ~lwmd.state.locked

C11_NoTextLostAtEnd ==
    [][(EndsUnlocked /\ Structure(lwmd'.target) = <<>>)
          => TextOf(lwmd'.target) = doc]_vars

(* C11 holds when flush_on_write is on: write() has flushed before end() *)
C11_NoTextLostWhenFlushing ==
    [][(EndsUnlocked /\ Structure(lwmd'.target) = <<>> /\ lwmd.options.flush_on_write)
          => TextOf(lwmd'.target) = doc]_vars

(* C12: in CODE, the next backtick closes the span: the parser is back in     *)
(* NORMAL after it.                                                           *)
WritesOne(char) ==
    /\ phase = "streaming"
    /\ phase' = "streaming"
    /\ todo # <<>>
    /\ todo' = Tail(todo)
    /\ todo[1] = char
    /\ ~lwmd'.threw

C12_BacktickClosesCode ==
    [][(lwmd.state.state = CODE /\ WritesOne(BACKTICK))
          => lwmd'.state.state = NORMAL]_vars

(* C13: when the heading or the rule recognizer aborts on character c, c is   *)
(* processed again in NORMAL: an emphasis marker enters SEQUENCE_MODIFIER     *)
(* with (c, 1) pushed, a backtick enters CODE.                                *)
AbortsOn(char) ==
    \/ lwmd.state.state = SEQUENCE_HEADING /\ char \notin {HASH, SPACE, NEWLINE}
    \/ lwmd.state.state = SEQUENCE_HR /\ char \notin {lwmd.state.hr_char, SPACE, NEWLINE}

TopRun(stack) == <<stack[Len(stack)][1], stack[Len(stack)][2]>>

C13_AbortReprocesses ==
    [][\A c \in {ASTERISK, TILDE, BACKTICK} :
          (AbortsOn(c) /\ WritesOne(c)) =>
              IF c = BACKTICK
              THEN lwmd'.state.state = CODE
              ELSE /\ lwmd'.state.state = SEQUENCE_MODIFIER
                   /\ lwmd'.state.modifierStack # <<>>
                   /\ TopRun(lwmd'.state.modifierStack) = <<c, 1>>]_vars

(* C14: while the lock stays set (set before a write() and still set after    *)
(* it), no text and no element is appended and start does not change, the     *)
(* flush at the end of write() under flush_on_write included; flush() on a    *)
(* locked instance changes nothing.                                           *)
C14_NoOutputWhileLocked ==
    [][(phase' = "streaming" /\ lwmd.state.locked /\ lwmd'.state.locked
          /\ \A i \in 1..(Len(todo) - Len(todo')) : todo[i] # NEWLINE)
          => /\ lwmd'.target = lwmd.target
             /\ lwmd'.start = lwmd.start
             /\ flushDefault(lwmd') = lwmd'
             /\ flush(lwmd', lwmd'.uncorfinmed_start, lwmd'.position) = lwmd']_vars

(* a second fragment has been written with the lock held, flush_on_write on *)
C14_Witness ==
    /\ lwmd.state.locked
    /\ lwmd.options.flush_on_write
    /\ Len(lwmd.chunks) = 2
    /\ doc[1] = HASH
    /\ Count(NEWLINE, Consumed) = 0
    /\ lwmd.target = <<>>
    /\ lwmd.start = 0

(* C15: the stack is the root target with at most one heading above it, and   *)
(* until end() the target holds one more open than close exactly while that   *)
(* heading is open; after a newline the stack is the root alone, in whatever state the   *)
(* newline was read; a newline read with a heading open flushes the pending   *)
(* text into the heading and then closes it.                                  *)
OpenHeadings(target) == Count("open", [i \in 1..Len(target) |-> target[i].op])
                            - Count("close", [i \in 1..Len(target) |-> target[i].op])

StackShape ==
    /\ lwmd.stack \in {<<"target">>, <<"target", "h">>}
    /\ phase = "streaming" => OpenHeadings(lwmd.target) = Len(lwmd.stack) - 1

PendingText == IF Pending = <<>> THEN <<>> ELSE <<TextNode(Pending)>>

C15_HeadingsNeverSpanLines ==
    /\ [](StackShape /\ (AfterNewline => lwmd.stack = <<"target">>))
    /\ [][(Len(lwmd.stack) = 2 /\ WritesOne(NEWLINE))
            => /\ Len(lwmd'.target) >= Len(lwmd.target \o PendingText) + 1
               /\ SubSeq(lwmd'.target, 1, Len(lwmd.target \o PendingText) + 1)
                    = lwmd.target \o PendingText \o <<CloseElement>>]_vars

(* a heading line with text has just ended: opened, text appended, closed *)
C15_Witness ==
    /\ AfterNewline
    /\ lwmd.stack = <<"target">>
    /\ Len(lwmd.target) >= 3
    /\ lwmd.target[1].op = "open"
    /\ lwmd.target[2].op = "text"
    /\ lwmd.target[3].op = "close"

(* C16: between any two calls the lock is set exactly when the state is       *)
(* SEQUENCE_HEADING or SEQUENCE_HR; SEQUENCE_MODIFIER and CODE are entered    *)
(* without the lock.                                                          *)
C16_LockTracksBlockDecision ==
    lwmd.state.locked <=> lwmd.state.state \in {SEQUENCE_HEADING, SEQUENCE_HR}

(* in a modifier run and in a code span entered from NORMAL, mid-document *)
C16_Witness ==
    /\ phase = "streaming"
    /\ lwmd.position > 1
    /\ lwmd.state.state \in {SEQUENCE_MODIFIER, CODE}
    /\ ~lwmd.state.locked
    /\ ~lwmd.threw
    /\ doc[1] = 97

(* C17: after any sequence of write(), flush() and end() calls start is at    *)
(* most position, and until end() closes the document neither position nor   *)
(* start decreases.                                                           *)
C17_CursorOrdering ==
    /\ [](lwmd.start <= lwmd.position)
    /\ [][phase' = "streaming" =>
             /\ lwmd'.position >= lwmd.position
             /\ lwmd'.start >= lwmd.start]_vars

(* start has been moved by a public flush(), by the flush on entering a       *)
(* heading run and by the confirmed heading, up to the position               *)
C17_Witness ==
    /\ phase = "streaming"
    /\ ~lwmd.options.flush_on_write
    /\ Len(lwmd.target) = 3
    /\ lwmd.target[1] = TextNode(<<97>>)
    /\ lwmd.target[2] = TextNode(<<NEWLINE>>)
    /\ lwmd.target[3].op = "open"
    /\ lwmd.start = lwmd.position
    /\ lwmd.position = 4

(* C18: k identical emphasis markers in a row, for every k >= 1, are one      *)
(* entry (marker, k) of modifierStack: after a letter and k times the marker  *)
(* m, the stack is that one entry.                                            *)
C18_ModifierRunLengths ==
    \A m \in {ASTERISK, TILDE} : \A k \in 1..(MaxLen - 1) :
        (phase = "streaming" /\ Consumed = <<97>> \o Repeat(m, k))
            => lwmd.state.modifierStack = <<<<m, k>>>>

(* C19: for every list of written fragments, empty ones included, and every   *)
(* 0 <= a <= b <= total length, getSubstring(a, b) is the characters a..b-1   *)
(* of the fragments concatenated in arrival order.                            *)
RECURSIVE Concat(_)
Concat(chunks) == IF chunks = <<>> THEN <<>> ELSE Head(chunks) \o Concat(Tail(chunks))

C19_ChunkStoreRead ==
    /\ Concat(lwmd.chunks) = Consumed
    /\ \A a \in 0..Len(Consumed) : \A b \in a..Len(Consumed) :
          getSubstring(lwmd.chunks, a, b) = SubSeq(Consumed, a + 1, b)

(* three fragments, the middle one empty, and a read across it that neither   *)
(* fast path serves                                                           *)
C19_Witness ==
    /\ Len(lwmd.chunks) = 3
    /\ Len(lwmd.chunks[1]) = 2
    /\ lwmd.chunks[2] = <<>>
    /\ Len(lwmd.chunks[3]) = 2
    /\ lwmd.chunks[1][2] # lwmd.chunks[3][1]
    /\ ~FastPath(lwmd.chunks, 1, 0, 1, 3).found
    /\ getSubstring(lwmd.chunks, 1, 3) = <<lwmd.chunks[1][2], lwmd.chunks[3][1]>>

(* C20: between two characters, state SEQUENCE_MODIFIER implies a non-empty   *)
(* modifierStack, and the parser is never in SEQUENCE_MODIFIER at a line      *)
(* start.                                                                     *)
C20_ModifierStateHasRun ==
    lwmd.state.state = SEQUENCE_MODIFIER
        => /\ lwmd.state.modifierStack # <<>>
           /\ ~lwmd.state.line_start

====
